---- MODULE Spec2Model ----
(***************************************************************************)
(* Lot feature engineering (src/data_processing/lot_engineering.py):       *)
(* load_lot_data, add_geo_features, gini_coefficient, get_orientation,     *)
(* calculate_orientation_entropy and main.                                 *)
(*                                                                         *)
(* Numbers are numpy float64 values.  They are modelled as binary          *)
(* floating-point numbers m * 2^e with a significand of Prec bits, rounded *)
(* to nearest, ties to even, after every operation, as IEEE 754 does; the  *)
(* exponent is unbounded (no overflow or underflow), and -0.0 is not told  *)
(* apart from 0.0.  Prec is 53 in the program; the model keeps the         *)
(* rounding rule and narrows the significand.                              *)
(***************************************************************************)
EXTENDS Integers, Sequences, FiniteSets

\* Significand width of the modelled float (53 for float64).
Prec == 14
\* Largest number of constituent polygons (areas) handed to gini_coefficient
\* and calculate_orientation_entropy.  np.sum adds fewer than 8 values from
\* left to right, so MaxLots stays below 8.
MaxLots == 5
\* Largest number of rows of the boundary dataset.
MaxRows == 2

(***************************************************************************)
(* float64 arithmetic                                                      *)
(***************************************************************************)
RECURSIVE Pow2(_)
Pow2(n) == IF n <= 0 THEN 1 ELSE 2 * Pow2(n - 1)

Abs(n) == IF n < 0 THEN -n ELSE n

\* Number of bits of a natural number.
RECURSIVE BitLen(_)
BitLen(n) == IF n = 0 THEN 0 ELSE 1 + BitLen(n \div 2)

\* The finite float m * 2^e in canonical form: m odd, or m = 0 and e = 0.
RECURSIVE Canon(_, _)
Canon(m, e) ==
    IF m = 0 THEN [k |-> "fin", m |-> 0, e |-> 0]
    ELSE IF m % 2 = 0 THEN Canon(m \div 2, e + 1)
    ELSE [k |-> "fin", m |-> m, e |-> e]

\* m * 2^e rounded to Prec significant bits, to nearest, ties to even.
Rnd(m, e) ==
    LET a == Abs(m)
        L == BitLen(a)
    IN  IF L <= Prec THEN Canon(m, e)
        ELSE LET s  == L - Prec
                 q  == Pow2(s)
                 t  == a \div q
                 r  == a % q
                 up == (2 * r > q) \/ (2 * r = q /\ t % 2 = 1)
                 t2 == IF up THEN t + 1 ELSE t
             IN  Canon((IF m < 0 THEN -1 ELSE 1) * t2, e + s)

Zero == [k |-> "fin", m |-> 0, e |-> 0]
NaN == [k |-> "nan", m |-> 0, e |-> 0]
Inf(sign) == [k |-> "inf", m |-> sign, e |-> 0]

Sign(a) == IF a.m < 0 THEN -1 ELSE IF a.m > 0 THEN 1 ELSE 0

\* An integer converted to float (np.float64(n)).
FromInt(n) == Rnd(n, 0)

IsFinite(a) == a.k = "fin"

\* a + b
FAdd(a, b) ==
    IF a.k = "nan" \/ b.k = "nan" THEN NaN
    ELSE IF a.k = "inf" /\ b.k = "inf" THEN (IF a.m = b.m THEN a ELSE NaN)
    ELSE IF a.k = "inf" THEN a
    ELSE IF b.k = "inf" THEN b
    ELSE IF a.m = 0 THEN b
    ELSE IF b.m = 0 THEN a
    ELSE LET lo == IF a.e < b.e THEN a.e ELSE b.e
         IN  Rnd(a.m * Pow2(a.e - lo) + b.m * Pow2(b.e - lo), lo)

\* a * b
FMul(a, b) ==
    IF a.k = "nan" \/ b.k = "nan" THEN NaN
    ELSE IF a.k = "inf" \/ b.k = "inf"
         THEN (IF Sign(a) * Sign(b) = 0 THEN NaN ELSE Inf(Sign(a) * Sign(b)))
    ELSE Rnd(a.m * b.m, a.e + b.e)

\* Long division of n by d, where d / 2 <= n < d: the next `bits` bits of the
\* quotient, followed by one sticky bit that says whether a remainder is left.
RECURSIVE QuotBits(_, _, _, _)
QuotBits(n, d, bits, q) ==
    IF bits = 0 THEN 2 * q + (IF n # 0 THEN 1 ELSE 0)
    ELSE IF 2 * n >= d THEN QuotBits(2 * n - d, d, bits - 1, 2 * q + 1)
    ELSE QuotBits(2 * n, d, bits - 1, 2 * q)

\* |ma| / |mb| for odd ma, mb below 2^Prec, correctly rounded.
DivFinite(sign, ma, mb, e) ==
    LET la == BitLen(ma)
        lb == BitLen(mb)
        \* scale both to the same bit length, then n up so that d/2 <= n < d
        n0 == IF la < lb THEN ma * Pow2(lb - la) ELSE ma
        d0 == IF lb < la THEN mb * Pow2(la - lb) ELSE mb
        e0 == e + (la - lb)
        d  == IF n0 >= d0 THEN 2 * d0 ELSE d0
        e1 == IF n0 >= d0 THEN e0 + 1 ELSE e0
    IN  Rnd(sign * QuotBits(n0, d, Prec + 2, 0), e1 - (Prec + 3))

\* a / b as numpy divides floats: x / 0 is inf (nan for 0 / 0), no exception.
FDiv(a, b) ==
    IF a.k = "nan" \/ b.k = "nan" THEN NaN
    ELSE IF a.k = "inf" THEN (IF b.k = "inf" THEN NaN
                              ELSE Inf(IF Sign(b) < 0 THEN -a.m ELSE a.m))
    ELSE IF b.k = "inf" THEN Zero
    ELSE IF b.m = 0 THEN (IF a.m = 0 THEN NaN ELSE Inf(Sign(a)))
    ELSE IF a.m = 0 THEN Zero
    ELSE DivFinite(Sign(a) * Sign(b), Abs(a.m), Abs(b.m), a.e - b.e)

\* a < b for finite floats.
FLess(a, b) ==
    LET lo == IF a.e < b.e THEN a.e ELSE b.e
    IN  a.m * Pow2(a.e - lo) < b.m * Pow2(b.e - lo)

\* np.sum of fewer than 8 floats: added left to right, starting from 0.
RECURSIVE FSum(_)
FSum(s) == IF s = <<>> THEN Zero
           ELSE FAdd(FSum(SubSeq(s, 1, Len(s) - 1)), s[Len(s)])

(***************************************************************************)
(* gini_coefficient                                                        *)
(***************************************************************************)
\* np.sort: ascending order.
RECURSIVE Insert(_, _)
Insert(v, s) ==
    IF s = <<>> THEN <<v>>
    ELSE IF FLess(v, s[1]) THEN <<v>> \o s
    ELSE <<s[1]>> \o Insert(v, Tail(s))

\* Mutant of Sort: the values are left in their input order.
SortSkipped(s) == s

RECURSIVE Sort(_)
Sort(s) == IF s = <<>> THEN <<>> ELSE Insert(s[1], Sort(Tail(s)))

\* (2 * index - n - 1) * x, element by element, for the sorted x.
Weighted(x) ==
    LET n == Len(x)
    IN  [i \in 1..n |-> FMul(FromInt(2 * i - n - 1), x[i])]

\* The guard of gini_coefficient: fewer than two values, or a sum of 0.
GiniGuard(x) == Len(x) <= 1 \/ FSum(x) = Zero

\* np.sum((2 * index - n - 1) * x) of the sorted values.
GiniNumerator(x) == FSum(Weighted(Sort(x)))

\* n * np.sum(x) of the sorted values.
GiniDenominator(x) == FMul(FromInt(Len(x)), FSum(Sort(x)))

\* Mutant of GiniQuotient: sum / n * sum, the division taken before the product.
GiniQuotientUnparenthesised(x) ==
    FMul(FDiv(GiniNumerator(x), FromInt(Len(x))), FSum(Sort(x)))

\* np.sum(...) / (n * np.sum(x))
GiniQuotient(x) == FDiv(GiniNumerator(x), GiniDenominator(x))

gini_coefficient(x) == IF GiniGuard(x) THEN Zero ELSE GiniQuotient(x)

(***************************************************************************)
(* Geometries and tables                                                   *)
(***************************************************************************)
\* A constituent polygon: its area, the angle in degrees (arctan2, so in
\* -180..180) of the first edge of its minimum rotated rectangle, and whether
\* it is degenerate (zero area, collinear points), in which case
\* minimum_rotated_rectangle is a line or a point and has no exterior.
Poly(area, angle, degen) == [area |-> FromInt(area), angle |-> angle, degen |-> degen]

Polygon(p) == [type |-> "Polygon", geoms |-> <<p>>]
MultiPolygon(ps) == [type |-> "MultiPolygon", geoms |-> ps]

\* hasattr(geom, 'geoms')
HasGeoms(geom) == geom.type = "MultiPolygon"

\* [poly.area for poly in geom.geoms]
PolyAreas(ps) == [i \in 1..Len(ps) |-> ps[i].area]

\* geometry.area: the area of a polygon, the sum of the parts of a multipolygon.
GeomArea(geom) ==
    IF HasGeoms(geom) THEN FSum(PolyAreas(geom.geoms)) ELSE geom.geoms[1].area

\* len(x.geoms) if x.geom_type == "MultiPolygon" else 1
NumLots(geom) == IF geom.type = "MultiPolygon" THEN Len(geom.geoms) ELSE 1

\* A table (GeoDataFrame): its columns and its rows, each row a function of
\* the column names.
Table(cols, rows) == [cols |-> cols, rows |-> rows]

\* lot_data[name] = values: the column is added to (or overwritten in) the
\* table, one value per row.
SetColumn(t, name, values) ==
    Table(t.cols \cup {name},
          [i \in 1..Len(t.rows) |->
              [c \in t.cols \cup {name} |->
                  IF c = name THEN values[i] ELSE t.rows[i][c]]])

(***************************************************************************)
(* load_lot_data                                                           *)
(***************************************************************************)
\* A row of lots after lines 31-36: id, geometry, total_lot_area, num_lots.
LotRow(l) ==
    [id |-> l.id, geometry |-> l.geometry,
     total_lot_area |-> GeomArea(l.geometry), num_lots |-> NumLots(l.geometry)]

\* A joined row; the key column id is renamed to city (line 40).
Joined(l, boundary_area) ==
    [city |-> l.id, geometry |-> l.geometry, total_lot_area |-> l.total_lot_area,
     num_lots |-> l.num_lots, boundary_area |-> boundary_area]

\* The rows one lot row yields in an inner join: one per boundary row of its key.
RECURSIVE Matches(_, _)
Matches(l, boundaries) ==
    IF boundaries = <<>> THEN <<>>
    ELSE (IF boundaries[1].id = l.id
          THEN <<Joined(l, boundaries[1].area)>> ELSE <<>>)
         \o Matches(l, Tail(boundaries))

\* Mutant of JoinRow: an inner join, a lot row with no boundary row is dropped.
JoinRowInner(l, boundaries) == Matches(l, boundaries)

\* how='left' with lots on the left: a lot row with no boundary row of its
\* key is kept, with boundary_area NaN.
JoinRow(l, boundaries) ==
    IF Matches(l, boundaries) = <<>> THEN <<Joined(l, NaN)>>
    ELSE Matches(l, boundaries)

\* lots.merge(boundaries.drop(columns='geometry'), on='id', how='left')
RECURSIVE Merge(_, _)
Merge(lots, boundaries) ==
    IF lots = <<>> THEN <<>>
    ELSE JoinRow(LotRow(lots[1]), boundaries) \o Merge(Tail(lots), boundaries)

JoinedColumns == {"city", "geometry", "total_lot_area", "num_lots", "boundary_area"}

(***************************************************************************)
(* add_geo_features                                                        *)
(***************************************************************************)
\* Mutant of PctLotArea: a zero boundary_area is guarded and yields 0.
PctLotAreaGuarded(row) ==
    IF row.boundary_area = Zero THEN Zero
    ELSE FDiv(row.total_lot_area, row.boundary_area)

\* lot_data["total_lot_area"] / lot_data["boundary_area"]
PctLotArea(row) == FDiv(row.total_lot_area, row.boundary_area)

\* Mutant of LotsPerSqKm: the factor of m^2 per km^2.
LotsPerSqKmMillion(row) == FDiv(FromInt(1000000 * row.num_lots), row.boundary_area)

\* 1000 * lot_data["num_lots"] / lot_data["boundary_area"]
LotsPerSqKm(row) == FDiv(FromInt(1000 * row.num_lots), row.boundary_area)

\* np.mean of the constituent areas (the area itself for a polygon), / 1000
AvgLotArea(row) ==
    LET geom == row.geometry
    IN  FDiv(IF HasGeoms(geom)
             THEN FDiv(FSum(PolyAreas(geom.geoms)), FromInt(Len(geom.geoms)))
             ELSE geom.geoms[1].area,
             FromInt(1000))

GeoColumns == {"pct_lot_area", "lots_per_sq_km", "avg_lot_area"}

\* The table with the three columns set.
WithGeoFeatures(t) ==
    LET t1 == SetColumn(t, "pct_lot_area",
                        [i \in 1..Len(t.rows) |-> PctLotArea(t.rows[i])])
        t2 == SetColumn(t1, "lots_per_sq_km",
                        [i \in 1..Len(t1.rows) |-> LotsPerSqKm(t1.rows[i])])
    IN  SetColumn(t2, "avg_lot_area",
                  [i \in 1..Len(t2.rows) |-> AvgLotArea(t2.rows[i])])

\* Mutant of add_geo_features: the features are added to a copy of the table,
\* which is returned.
add_geo_features_copy(heap, ref) ==
    LET new == Len(heap) + 1
    IN  [heap |-> Append(heap, WithGeoFeatures(heap[ref])), ret |-> new]

\* add_geo_features(lot_data): the columns are assigned on the table object
\* passed in, and that object is returned.
add_geo_features(heap, ref) ==
    [heap |-> [heap EXCEPT ![ref] = WithGeoFeatures(heap[ref])], ret |-> ref]

(***************************************************************************)
(* get_orientation, calculate_orientation_entropy                          *)
(***************************************************************************)
\* Mutant of get_orientation: the angle is not reduced modulo 90.
get_orientation_unreduced(poly) == poly.angle

\* np.degrees(edge_angle) % 90
get_orientation(poly) == poly.angle % 90

\* Whether get_orientation raises AttributeError: mbr.exterior of a line or point.
OrientationRaises(poly) == poly.degen

\* np.histogram(angles, bins=bins, range=(0, 90)): the bin of an angle, 0 for
\* an angle outside the range, which is not counted; the last bin is closed.
HistBin(a, bins) ==
    IF a < 0 \/ a > 90 THEN 0
    ELSE IF a = 90 THEN bins
    ELSE (a * bins) \div 90 + 1

Hist(angles, bins) ==
    [b \in 1..bins |-> Cardinality({i \in 1..Len(angles) : HistBin(angles[i], bins) = b})]

\* entropy(hist) / np.log(bins).  The Shannon entropy of the counts is 0 when
\* one bin holds them all, nan when no angle was counted, and positive
\* otherwise; np.log(bins) is 0 for one bin.  A positive quotient is kept as
\* the symbol [k |-> "entropy"] with the number of non-empty bins and of bins.
NormalisedEntropy(hist, bins) ==
    LET nonempty == Cardinality({b \in 1..bins : hist[b] > 0})
    IN  IF nonempty = 0 THEN NaN
        ELSE IF nonempty = 1 THEN (IF bins = 1 THEN NaN ELSE Zero)
        ELSE [k |-> "entropy", m |-> nonempty, e |-> bins]

Angles(geoms) == [i \in 1..Len(geoms) |-> get_orientation(geoms[i])]

\* not geoms or len(geoms) <= 1
EntropyGuard(geoms) == Len(geoms) = 0 \/ Len(geoms) <= 1

\* Whether calculate_orientation_entropy raises (a get_orientation call does).
EntropyRaises(geoms) ==
    ~EntropyGuard(geoms) /\ \E i \in 1..Len(geoms) : OrientationRaises(geoms[i])

calculate_orientation_entropy(geoms, bins) ==
    IF EntropyGuard(geoms) THEN Zero
    ELSE NormalisedEntropy(Hist(Angles(geoms), bins), bins)

\* The default bins=36.
DefaultBins == 36

(***************************************************************************)
(* main: the two columns computed per region                               *)
(***************************************************************************)
\* gini_coefficient([poly.area ...]) if hasattr(geom, 'geoms') else 0.0
GiniOfRow(row) ==
    IF HasGeoms(row.geometry) THEN gini_coefficient(PolyAreas(row.geometry.geoms))
    ELSE Zero

\* calculate_orientation_entropy(list(geom.geoms)) if hasattr(geom, 'geoms') else 0.0
EntropyOfRow(row) ==
    IF HasGeoms(row.geometry)
    THEN calculate_orientation_entropy(row.geometry.geoms, DefaultBins)
    ELSE Zero

\* Whether the list comprehension of lines 161-165 raises on this row.
EntropyOfRowRaises(row) ==
    HasGeoms(row.geometry) /\ EntropyRaises(row.geometry.geoms)

(***************************************************************************)
(* State                                                                   *)
(***************************************************************************)
VARIABLES
    \* a run of main
    pc,               \* the statement main is at
    lots_file,        \* data/lots/city_lots.geojson
    boundaries_file,  \* data/lots/city_boundaries.geojson
    heap,             \* the table objects created so far
    initial_lots,     \* main's variable: a reference into heap, or NoneRef
    lot_data,         \* main's variable: a reference into heap, or NoneRef
    printed,          \* number of messages printed
    exc,              \* the exception main has raised, or "none"
    output,           \* data/lots/lot_features.geojson
    \* a call of gini_coefficient
    gx,               \* the argument x
    gc,               \* the positive constant the caller scales x by
    g_ret,            \* gini_coefficient(x), or NotCalled
    g_ret_scaled,     \* gini_coefficient(c * x), or NotCalled
    \* a call of calculate_orientation_entropy
    o_geoms,          \* the argument geoms
    o_bins,           \* the argument bins
    o_ret,            \* the value returned, or NotCalled
    o_exc             \* the exception raised, or "none"

mainVars == <<pc, lots_file, boundaries_file, heap, initial_lots, lot_data,
              printed, exc, output>>
giniVars == <<gx, gc, g_ret, g_ret_scaled>>
entropyVars == <<o_geoms, o_bins, o_ret, o_exc>>
vars == <<mainVars, giniVars, entropyVars>>

NotCalled == [k |-> "none", m |-> 0, e |-> 0]
One == FromInt(1)

\* None, where main holds no table.
NoneRef == 0

Missing == [exists |-> FALSE, rows |-> <<>>]
File(rows) == [exists |-> TRUE, rows |-> rows]
NotWritten == [written |-> FALSE, table |-> Table({}, <<>>)]

RECURSIVE SeqsUpTo(_, _)
SeqsUpTo(S, n) ==
    IF n = 0 THEN {<<>>}
    ELSE LET shorter == SeqsUpTo(S, n - 1)
         IN  shorter \cup {Append(s, v) : s \in {t \in shorter : Len(t) = n - 1}, v \in S}

MainIdle ==
    /\ pc = "idle" /\ lots_file = Missing /\ boundaries_file = Missing
    /\ heap = <<>> /\ initial_lots = NoneRef /\ lot_data = NoneRef
    /\ printed = 0 /\ exc = "none" /\ output = NotWritten

GiniIdle == gx = <<>> /\ gc = One /\ g_ret = NotCalled /\ g_ret_scaled = NotCalled

EntropyIdle == o_geoms = <<>> /\ o_bins = DefaultBins /\ o_ret = NotCalled /\ o_exc = "none"

(***************************************************************************)
(* A run of main                                                           *)
(***************************************************************************)
RegionIds == {1, 2}

\* Lot geometries: a polygon, a degenerate polygon, multipolygons of one and
\* two parts (of one orientation, of two), and one with a degenerate part.
GeomValues ==
    { Polygon(Poly(100, 30, FALSE)),
      Polygon(Poly(0, 0, TRUE)),
      MultiPolygon(<<Poly(300, 45, FALSE)>>),
      MultiPolygon(<<Poly(100, 30, FALSE), Poly(300, 120, FALSE)>>),
      MultiPolygon(<<Poly(300, 45, FALSE), Poly(100, 30, FALSE)>>),
      MultiPolygon(<<Poly(300, 45, FALSE), Poly(0, 0, TRUE)>>) }

\* Areas of boundary polygons in m^2.
BoundaryAreas == {FromInt(0), FromInt(1000000)}

LotRecords == [id : RegionIds, geometry : GeomValues]
BoundaryRecords == [id : RegionIds, area : BoundaryAreas]

\* The lot dataset holds one record per region, here in the order of the keys;
\* the boundary dataset holds up to MaxRows records, keys repeated or not.
LotFiles ==
    {File(r) : r \in {q \in SeqsUpTo(LotRecords, Cardinality(RegionIds)) :
                        \A i, j \in 1..Len(q) : i < j => q[i].id < q[j].id}}
BoundaryFiles == {File(r) : r \in SeqsUpTo(BoundaryRecords, MaxRows)}

Init ==
    /\ pc = "start"
    /\ lots_file \in {Missing} \cup LotFiles
    /\ boundaries_file \in {Missing} \cup BoundaryFiles
    /\ heap = <<>>
    /\ initial_lots = NoneRef
    /\ lot_data = NoneRef
    /\ printed = 0
    /\ exc = "none"
    /\ output = NotWritten
    /\ GiniIdle
    /\ EntropyIdle

\* initial_lots = load_lot_data(): gpd.read_file raises DataSourceError for a
\* missing file; the handler prints and the function returns None.
LoadLotData ==
    /\ pc = "start"
    /\ IF lots_file.exists /\ boundaries_file.exists
       THEN /\ heap' = Append(heap, Table(JoinedColumns,
                                          Merge(lots_file.rows, boundaries_file.rows)))
            /\ initial_lots' = Len(heap) + 1
            /\ printed' = printed
       ELSE /\ heap' = heap
            /\ initial_lots' = NoneRef
            /\ printed' = printed + 1
    /\ pc' = "loaded"
    /\ UNCHANGED <<lots_file, boundaries_file, lot_data, exc, output>>
    /\ UNCHANGED <<giniVars, entropyVars>>

\* lot_data = add_geo_features(initial_lots): None["total_lot_area"] raises
\* TypeError, which main does not catch.
AddGeoFeatures ==
    /\ pc = "loaded"
    /\ IF initial_lots = NoneRef
       THEN /\ exc' = "TypeError"
            /\ pc' = "raised"
            /\ UNCHANGED <<heap, lot_data>>
       ELSE /\ heap' = add_geo_features(heap, initial_lots).heap
            /\ lot_data' = add_geo_features(heap, initial_lots).ret
            /\ pc' = "featured"
            /\ exc' = exc
    /\ UNCHANGED <<lots_file, boundaries_file, initial_lots, printed, output>>
    /\ UNCHANGED <<giniVars, entropyVars>>

\* lot_data["gini_coef"] = [...]
AddGiniCoef ==
    /\ pc = "featured"
    /\ heap' = [heap EXCEPT ![lot_data] =
                    SetColumn(@, "gini_coef",
                              [i \in 1..Len(@.rows) |-> GiniOfRow(@.rows[i])])]
    /\ pc' = "gini"
    /\ UNCHANGED <<lots_file, boundaries_file, initial_lots, lot_data, printed,
                   exc, output>>
    /\ UNCHANGED <<giniVars, entropyVars>>

\* lot_data["orientation_entropy"] = [...]: the list is built row by row before
\* the column is assigned; an AttributeError of get_orientation ends main.
AddOrientationEntropy ==
    /\ pc = "gini"
    /\ IF \E i \in 1..Len(heap[lot_data].rows) : EntropyOfRowRaises(heap[lot_data].rows[i])
       THEN /\ exc' = "AttributeError"
            /\ pc' = "raised"
            /\ heap' = heap
       ELSE /\ heap' = [heap EXCEPT ![lot_data] =
                            SetColumn(@, "orientation_entropy",
                                      [i \in 1..Len(@.rows) |-> EntropyOfRow(@.rows[i])])]
            /\ pc' = "entropy"
            /\ exc' = exc
    /\ UNCHANGED <<lots_file, boundaries_file, initial_lots, lot_data, printed, output>>
    /\ UNCHANGED <<giniVars, entropyVars>>

\* lot_data.to_file(lot_data_file, driver="GeoJSON")
WriteOutput ==
    /\ pc = "entropy"
    /\ output' = [written |-> TRUE, table |-> heap[lot_data]]
    /\ pc' = "done"
    /\ UNCHANGED <<lots_file, boundaries_file, heap, initial_lots, lot_data,
                   printed, exc>>
    /\ UNCHANGED <<giniVars, entropyVars>>

Next ==
    \/ LoadLotData
    \/ AddGeoFeatures
    \/ AddGiniCoef
    \/ AddOrientationEntropy
    \/ WriteOutput

Spec == Init /\ [][Next]_vars

(***************************************************************************)
(* Calls of gini_coefficient on lists of areas                             *)
(***************************************************************************)
\* Areas of constituent polygons in m^2.
AreaValues ==
    {FromInt(0), FromInt(100), FromInt(5463), FromInt(16381), FromInt(16382), FromInt(16383)}

\* Positive constants: a power of two and one that is not.
ScaleValues == {FromInt(2), FromInt(3)}

\* The list with every element multiplied by c.
Scaled(x, c) == [i \in 1..Len(x) |-> FMul(c, x[i])]

InitGini ==
    /\ gx \in SeqsUpTo(AreaValues, MaxLots)
    /\ gc \in ScaleValues
    /\ g_ret = NotCalled
    /\ g_ret_scaled = NotCalled
    /\ MainIdle
    /\ EntropyIdle

CallGini ==
    /\ g_ret = NotCalled
    /\ g_ret' = gini_coefficient(gx)
    /\ g_ret_scaled' = gini_coefficient(Scaled(gx, gc))
    /\ UNCHANGED <<gx, gc>>
    /\ UNCHANGED <<mainVars, entropyVars>>

NextGini == CallGini

SpecGini == InitGini /\ [][NextGini]_vars

(***************************************************************************)
(* Calls of calculate_orientation_entropy on lists of polygons             *)
(***************************************************************************)
PolyValues ==
    { Poly(100, 30, FALSE), Poly(300, 120, FALSE), Poly(300, 45, FALSE),
      Poly(0, 0, TRUE) }

BinValues == {1, 2, DefaultBins}

InitEntropy ==
    /\ o_geoms \in SeqsUpTo(PolyValues, MaxLots)
    /\ o_bins \in BinValues
    /\ o_ret = NotCalled
    /\ o_exc = "none"
    /\ MainIdle
    /\ GiniIdle

CallEntropy ==
    /\ o_ret = NotCalled /\ o_exc = "none"
    /\ IF EntropyRaises(o_geoms)
       THEN o_exc' = "AttributeError" /\ o_ret' = o_ret
       ELSE o_exc' = o_exc /\ o_ret' = calculate_orientation_entropy(o_geoms, o_bins)
    /\ UNCHANGED <<o_geoms, o_bins>>
    /\ UNCHANGED <<mainVars, giniVars>>

NextEntropy == CallEntropy

SpecEntropy == InitEntropy /\ [][NextEntropy]_vars

(***************************************************************************)
(* Properties of gini_coefficient                                          *)
(***************************************************************************)
GiniCalled == g_ret # NotCalled

AllPositive(x) == \A i \in 1..Len(x) : FLess(Zero, x[i])
NonNegative(x) == \A i \in 1..Len(x) : ~FLess(x[i], Zero)
PairwiseDistinct(x) == \A i, j \in 1..Len(x) : i # j => x[i] # x[j]
AllEqual(x) == \A i, j \in 1..Len(x) : x[i] = x[j]
IsPowerOfTwo(c) == c.k = "fin" /\ c.m = 1

\* C3: for two or more pairwise distinct positive areas, in any order,
\* gini_coefficient returns a value strictly between 0 and 1, and the
\* numerator sum lies strictly between 0 and n * sum.
C3_GiniStrictlyBetween0And1 ==
    (GiniCalled /\ Len(gx) >= 2 /\ AllPositive(gx) /\ PairwiseDistinct(gx))
        => /\ FLess(Zero, g_ret) /\ FLess(g_ret, One)
           /\ FLess(Zero, GiniNumerator(gx))
           /\ FLess(GiniNumerator(gx), GiniDenominator(gx))

C3_Witness ==
    /\ GiniCalled /\ Len(gx) >= 3 /\ AllPositive(gx) /\ PairwiseDistinct(gx)
    /\ FLess(gx[2], gx[1])
    /\ FLess(Zero, g_ret)

\* C4: for nonnegative areas that are all equal (the empty list, a single
\* element and all zeros included), gini_coefficient returns exactly 0.
C4_AllEqualGiniExactlyZero ==
    (GiniCalled /\ NonNegative(gx) /\ AllEqual(gx)) => g_ret = Zero

\* C5 as stated: for nonnegative areas and every positive constant c,
\* gini_coefficient(c * x) equals gini_coefficient(x).
C5_ScaleInvariantForEveryConstant ==
    (GiniCalled /\ NonNegative(gx)) => g_ret_scaled = g_ret

\* C5 as amended: for nonnegative areas and every constant c that is a
\* power of two, gini_coefficient(c * x) equals gini_coefficient(x), the
\* guarded inputs included.
C5_ScaleInvariantForPowersOfTwo ==
    (GiniCalled /\ NonNegative(gx) /\ IsPowerOfTwo(gc)) => g_ret_scaled = g_ret

C5_Witness ==
    /\ GiniCalled /\ IsPowerOfTwo(gc) /\ gc # One
    /\ Len(gx) >= 2 /\ g_ret # Zero /\ g_ret_scaled = g_ret

(***************************************************************************)
(* Properties of calculate_orientation_entropy                             *)
(***************************************************************************)
EntropyCalled == o_ret # NotCalled \/ o_exc # "none"

NoDegenerate(geoms) == \A i \in 1..Len(geoms) : ~geoms[i].degen

SameOrientation(geoms) ==
    \A i, j \in 1..Len(geoms) : get_orientation(geoms[i]) = get_orientation(geoms[j])

\* C10: calculate_orientation_entropy returns 0 for fewer than two polygons
\* and, for two or more bins, for two or more polygons whose orientation
\* angles are all equal.
C10_EntropyZero ==
    EntropyCalled =>
        /\ Len(o_geoms) < 2 => o_ret = Zero
        /\ (Len(o_geoms) >= 2 /\ o_bins >= 2 /\ NoDegenerate(o_geoms)
                /\ SameOrientation(o_geoms)) => o_ret = Zero

C10_Witness ==
    /\ EntropyCalled /\ Len(o_geoms) >= 2 /\ o_bins = DefaultBins
    /\ NoDegenerate(o_geoms) /\ SameOrientation(o_geoms)
    /\ o_geoms[1].angle # o_geoms[2].angle
    /\ o_ret = Zero

(***************************************************************************)
(* Properties of a run of main                                             *)
(***************************************************************************)
MissingInput == ~lots_file.exists \/ ~boundaries_file.exists

LotsOf(r) == {i \in 1..Len(lots_file.rows) : lots_file.rows[i].id = r}
BoundariesOf(r) == {i \in 1..Len(boundaries_file.rows) : boundaries_file.rows[i].id = r}
RowsOf(t, r) == {i \in 1..Len(t.rows) : t.rows[i].city = r}

\* C1 as stated: a region key of the boundary dataset with no record in the
\* lot dataset has exactly one record in the table load_lot_data returns,
\* with total_lot_area null.
C1_BoundaryOnlyRegionHasOneRecord ==
    (initial_lots # NoneRef /\ Len(lots_file.rows) > 0) =>
        \A r \in RegionIds :
            (BoundariesOf(r) # {} /\ LotsOf(r) = {}) =>
                /\ Cardinality(RowsOf(heap[initial_lots], r)) = 1
                /\ \A i \in RowsOf(heap[initial_lots], r) :
                       heap[initial_lots].rows[i].total_lot_area = NaN

\* C1 as amended: the join keeps the lot records.  Every record of the lot
\* dataset has one record in the table per boundary record of its key, and
\* exactly one, with boundary_area NaN and its own total_lot_area and
\* num_lots, when the boundary dataset has no record of its key; a region
\* key with no record in the lot dataset has no record in the table.
C1_LotRecordsKept ==
    initial_lots # NoneRef =>
        LET t == heap[initial_lots]
        IN  /\ \A r \in RegionIds :
                   Cardinality(RowsOf(t, r)) =
                       Cardinality(LotsOf(r)) *
                           (IF BoundariesOf(r) = {} THEN 1
                            ELSE Cardinality(BoundariesOf(r)))
            /\ \A i \in 1..Len(t.rows) :
                   /\ BoundariesOf(t.rows[i].city) = {} => t.rows[i].boundary_area = NaN
                   /\ t.rows[i].total_lot_area = GeomArea(t.rows[i].geometry)
                   /\ t.rows[i].num_lots = NumLots(t.rows[i].geometry)

C1_Witness ==
    /\ initial_lots # NoneRef
    /\ \E r \in RegionIds : BoundariesOf(r) # {} /\ LotsOf(r) = {}
    /\ \E r \in RegionIds :
           /\ BoundariesOf(r) = {} /\ LotsOf(r) # {}
           /\ \E i \in RowsOf(heap[initial_lots], r) :
                  heap[initial_lots].rows[i].boundary_area = NaN

\* C2: when the lot or the boundary dataset cannot be loaded, main reports it
\* once, writes no output table, runs no later step on the missing table and
\* raises nothing.
C2_MissingInputEndsNormally ==
    MissingInput =>
        /\ exc = "none"
        /\ pc # "start" => printed = 1
        /\ ~output.written
        /\ pc \in {"start", "loaded", "done"}

\* The float nearest to the decimal p / q.
Dec(p, q) == FDiv(FromInt(p), FromInt(q))

\* sum_i (2 * rank_i - n - 1) * value_i / (n * sum_i value_i), 0 for a sum of 0.
RankFormula(a) ==
    IF FSum(a) = Zero THEN Zero
    ELSE FDiv(FSum(Weighted(Sort(a))), FMul(FromInt(Len(a)), FSum(Sort(a))))

HasGeoColumns == pc \in {"featured", "gini", "entropy", "done"}
HasGiniColumn == pc \in {"gini", "entropy", "done"}

GeoRowAsClaimed(row) ==
    LET a == PolyAreas(row.geometry.geoms)
        n == Len(a)
        B == row.boundary_area
    IN  /\ row.total_lot_area = FSum(a)
        /\ row.num_lots = n
        /\ row.pct_lot_area = FDiv(FSum(a), B)
        /\ row.lots_per_sq_km = FDiv(FromInt(1000 * n), B)
        /\ row.avg_lot_area = FDiv(FDiv(FSum(a), FromInt(n)), FromInt(1000))
        /\ (B = FromInt(1000000) /\ a = <<FromInt(100), FromInt(300)>>) =>
               /\ row.total_lot_area = FromInt(400)
               /\ row.num_lots = 2
               /\ row.pct_lot_area = Dec(4, 10000)
               /\ row.lots_per_sq_km = Dec(2, 1000)
               /\ row.avg_lot_area = Dec(2, 10)

GiniRowAsClaimed(row) ==
    LET a == PolyAreas(row.geometry.geoms)
    IN  /\ row.gini_coef = RankFormula(a)
        /\ a = <<FromInt(100), FromInt(300)>> => row.gini_coef = Dec(25, 100)

PositiveBoundary(row) == IsFinite(row.boundary_area) /\ FLess(Zero, row.boundary_area)

NonFiniteRatios(row) == ~IsFinite(row.pct_lot_area) /\ ~IsFinite(row.lots_per_sq_km)

\* C7: for every joined record whose boundary_area is 0, pct_lot_area and
\* lots_per_sq_km are non-finite from add_geo_features on, no later step
\* makes them finite or removes the record, and the table written holds them.
C7_ZeroBoundaryStaysNonFinite ==
    /\ HasGeoColumns =>
           /\ Len(heap[lot_data].rows) = Len(Merge(lots_file.rows, boundaries_file.rows))
           /\ \A i \in 1..Len(heap[lot_data].rows) :
                  heap[lot_data].rows[i].boundary_area = Zero =>
                      NonFiniteRatios(heap[lot_data].rows[i])
    /\ output.written =>
           /\ Len(output.table.rows) = Len(Merge(lots_file.rows, boundaries_file.rows))
           /\ \A i \in 1..Len(output.table.rows) :
                  output.table.rows[i].boundary_area = Zero =>
                      NonFiniteRatios(output.table.rows[i])

C7_Witness ==
    /\ output.written
    /\ \E i \in 1..Len(output.table.rows) :
           /\ output.table.rows[i].boundary_area = Zero
           /\ output.table.rows[i].pct_lot_area = Inf(1)
           /\ output.table.rows[i].lots_per_sq_km = Inf(1)

CallsAddGeoFeatures == pc = "loaded" /\ pc' = "featured"

\* C8 as stated: after add_geo_features the table passed in holds the same
\* columns and values as before the call.
C8_ArgumentUnchanged ==
    [][(CallsAddGeoFeatures /\ Len(heap[initial_lots].rows) > 0) =>
           heap'[initial_lots] = heap[initial_lots]]_vars

\* C8 as amended: add_geo_features changes the table passed in, in place:
\* the result is that same table, it has the three new columns, and its
\* rows and the values of its other columns are as before the call.
C8_ArgumentGainsThreeColumns ==
    [][CallsAddGeoFeatures =>
          /\ lot_data' = initial_lots
          /\ Len(heap') = Len(heap)
          /\ heap'[initial_lots].cols = heap[initial_lots].cols \cup GeoColumns
          /\ heap[initial_lots].cols \cap GeoColumns = {}
          /\ Len(heap'[initial_lots].rows) = Len(heap[initial_lots].rows)
          /\ \A i \in 1..Len(heap[initial_lots].rows) :
                 \A c \in heap[initial_lots].cols :
                     heap'[initial_lots].rows[i][c] = heap[initial_lots].rows[i][c]
      ]_vars

C8_Witness ==
    /\ pc = "featured"
    /\ lot_data = initial_lots
    /\ Len(heap[initial_lots].rows) > 0
    /\ GeoColumns \subseteq heap[initial_lots].cols

Malformed(row) == \E j \in 1..Len(row.geometry.geoms) : row.geometry.geoms[j].degen

\* C9: in a run over several regions of which one is malformed (a degenerate
\* constituent polygon), main does not raise, and the table is written with
\* gini_coef and orientation_entropy of the other regions.
C9_MalformedRegionDoesNotAbort ==
    LET rows == Merge(lots_file.rows, boundaries_file.rows)
    IN  (/\ ~MissingInput
         /\ \E i, j \in 1..Len(rows) :
                /\ rows[i].city # rows[j].city
                /\ PositiveBoundary(rows[i]) /\ PositiveBoundary(rows[j])
                /\ Malformed(rows[i])
                /\ ~Malformed(rows[j]))
        => /\ exc = "none"
           /\ pc # "raised"

====
